---- MODULE Spec2Model ----
(***************************************************************************)
(* The p2p2 Swarm (src/unnamed/part_000): the peer, connection and         *)
(* pending-message tables owned by one event loop, the three request       *)
(* channels callers write to, the five Network event channels, and the     *)
(* handlers the loop dispatches to.                                        *)
(***************************************************************************)
EXTENDS Naturals, Sequences, FiniteSets

VARIABLES
    peers,                    \* s.peers: NodeId -> RemoteNode
    connections,              \* s.connections: the ConnIds that are keys of the table
    peersByConnection,        \* s.peersByConnection: ConnId -> RemoteNode (by node id)
    pendingOutgoingMessages,  \* s.pendingOutgoingMessages: reqId -> SendMessageReq
    connectionRequests,       \* chan NodeReq, capacity 10
    disconnectRequests,       \* chan NodeReq, capacity 10
    sendMsgRequests,          \* chan SendMessageReq, capacity 20
    network,                  \* the Network's five event channels, and in order of
                              \* emission the events whose handler has not returned
    callers,                  \* each caller: idle, or inside a channel send of an API call
    loopPc,                   \* beginProcessingEvents: "select" or "done" (after break Loop)
    running,                  \* events whose handler has been entered and has not returned
    closeCalled,              \* connections on which the Swarm called Close()
    dispatched,               \* deliveries of a message to a protocol handler
    callbacks,                \* results delivered to a caller (NodeResp, send results)
    createSession,            \* the HandshakeProtocol().CreateSession invocations, in order
    last,                     \* the last handler that returned, with the tables it started from
    budget                    \* API calls and Network events the environment may still issue

tables == <<peers, connections, peersByConnection, pendingOutgoingMessages>>
apiChans == <<connectionRequests, disconnectRequests, sendMsgRequests>>
effects == <<closeCalled, dispatched, callbacks, createSession>>
vars == <<peers, connections, peersByConnection, pendingOutgoingMessages,
          connectionRequests, disconnectRequests, sendMsgRequests, network,
          callers, loopPc, running, closeCalled, dispatched, callbacks,
          createSession, last, budget>>

----------------------------------------------------------------------------
(* Bounds of the model and the program's constants *)

\* API calls and Network events issued in one behaviour
MaxEvents == 3
\* The same, for behaviours that start from a full connect-request channel
BacklogEvents == 2

ConnectionRequestsCap == 10
DisconnectRequestsCap == 10
SendMsgRequestsCap == 20

PeerIds == {"p1", "p2"}
Addrs == {"good", "bad"}
ReqIds == {"r1"}
Payloads == {"m1"}
ConnIds == {"c1"}
Callers == {"a1", "a2"}

NilNode == "nil"
Idle == [op |-> "idle"]
NoEvent == [type |-> "none"]

\* The raw frames the Network hands over: an envelope without payload, an
\* envelope whose payload carries a protocol message for a request id, and
\* bytes that are no envelope at all.
Frames == {<<>>, <<"garbage">>} \cup {<<"payload", r>> : r \in ReqIds}

NodeReqs == [remoteNodeId : PeerIds, remoteNodeIp : Addrs, callback : Callers]
SendMessageReqs == [remoteNodeId : PeerIds, reqId : ReqIds, msg : Payloads]

\* The requests caller a makes: the callback channel is its own; a disconnect
\* request names the peer only
ConnectReqs(a) == {req \in NodeReqs : req.callback = a}
DisconnectReqs(a) == {req \in NodeReqs : req.callback = a /\ req.remoteNodeIp = "good"}

----------------------------------------------------------------------------
(* Collaborators of the Swarm *)

\* proto.Unmarshal(msg.Message, c) into pb.CommonMessageData
Unmarshal(bytes) ==
    IF bytes = <<>> THEN [err |-> FALSE, Payload |-> <<>>]
    ELSE IF bytes[1] = "payload" THEN [err |-> FALSE, Payload |-> Tail(bytes)]
    ELSE [err |-> TRUE, Payload |-> <<>>]

\* NewRemoteNode(id, ip): fails on a malformed address
NewRemoteNode(id, ip) ==
    IF ip = "bad" THEN [err |-> TRUE, node |-> NilNode]
    ELSE [err |-> FALSE, node |-> [id |-> id, ip |-> ip, session |-> FALSE]]

\* RemoteNode.HasSession() of the node stored under id
HasSession(id) == peers[id].session

\* Go map operations: m[k] = v and delete(m, k)
Put(m, k, v) == [x \in DOMAIN m \cup {k} |-> IF x = k THEN v ELSE m[x]]
Delete(m, k) == [x \in DOMAIN m \ {k} |-> m[x]]

\* What is recorded of a handler that has returned: its event and the state it started from
Snapshot(e) ==
    [ev |-> e, peers |-> peers, connections |-> connections,
     peersByConnection |-> peersByConnection,
     pendingOutgoingMessages |-> pendingOutgoingMessages,
     closeCalled |-> closeCalled, createSession |-> createSession]

----------------------------------------------------------------------------
Init ==
    /\ peers = <<>>
    /\ connections = {}
    /\ peersByConnection = <<>>
    /\ pendingOutgoingMessages = <<>>
    /\ connectionRequests = <<>>
    /\ disconnectRequests = <<>>
    /\ sendMsgRequests = <<>>
    /\ network = [newConnections |-> <<>>, incomingMessages |-> <<>>,
                  connectionErrors |-> <<>>, messageSendErrors |-> <<>>,
                  closingConnections |-> <<>>, order |-> <<>>]
    /\ callers = [a \in Callers |-> Idle]
    /\ loopPc = "select"
    /\ running = {}
    /\ closeCalled = {}
    /\ dispatched = {}
    /\ callbacks = {}
    /\ createSession = <<>>
    /\ last = Snapshot(NoEvent)
    /\ budget = MaxEvents

----------------------------------------------------------------------------
(* The public API: each method is one channel send, which blocks while the  *)
(* channel is full.                                                          *)

ConnectTo(a, req) ==
    /\ callers[a] = Idle
    /\ budget > 0
    /\ callers' = [callers EXCEPT ![a] = [op |-> "ConnectTo", req |-> req]]
    /\ budget' = budget - 1
    /\ UNCHANGED <<tables, apiChans, network, loopPc, running, effects, last>>

DisconnectFrom(a, req) ==
    /\ callers[a] = Idle
    /\ budget > 0
    /\ callers' = [callers EXCEPT ![a] = [op |-> "DisconnectFrom", req |-> req]]
    /\ budget' = budget - 1
    /\ UNCHANGED <<tables, apiChans, network, loopPc, running, effects, last>>

SendMessage(a, req) ==
    /\ callers[a] = Idle
    /\ budget > 0
    /\ callers' = [callers EXCEPT ![a] = [op |-> "SendMessage", req |-> req]]
    /\ budget' = budget - 1
    /\ UNCHANGED <<tables, apiChans, network, loopPc, running, effects, last>>

\* s.connectionRequests <- req completes once the channel has room
ConnectToReturn(a) ==
    /\ callers[a].op = "ConnectTo"
    /\ Len(connectionRequests) < ConnectionRequestsCap
    /\ connectionRequests' = Append(connectionRequests, callers[a].req)
    /\ callers' = [callers EXCEPT ![a] = Idle]
    /\ UNCHANGED <<tables, disconnectRequests, sendMsgRequests, network, loopPc,
                   running, effects, last, budget>>

\* s.disconnectRequests <- req
DisconnectFromReturn(a) ==
    /\ callers[a].op = "DisconnectFrom"
    /\ Len(disconnectRequests) < DisconnectRequestsCap
    /\ disconnectRequests' = Append(disconnectRequests, callers[a].req)
    /\ callers' = [callers EXCEPT ![a] = Idle]
    /\ UNCHANGED <<tables, connectionRequests, sendMsgRequests, network, loopPc,
                   running, effects, last, budget>>

\* s.sendMsgRequests <- req
SendMessageReturn(a) ==
    /\ callers[a].op = "SendMessage"
    /\ Len(sendMsgRequests) < SendMsgRequestsCap
    /\ sendMsgRequests' = Append(sendMsgRequests, callers[a].req)
    /\ callers' = [callers EXCEPT ![a] = Idle]
    /\ UNCHANGED <<tables, connectionRequests, disconnectRequests, network, loopPc,
                   running, effects, last, budget>>

----------------------------------------------------------------------------
(* The Network emits events on its channels *)

NetworkEmit(chan, ev) ==
    /\ network' = [network EXCEPT
                       ![chan] = Append(@, ev),
                       !.order = Append(@, [chan |-> chan, ev |-> ev, received |-> FALSE])]
    /\ budget' = budget - 1
    /\ UNCHANGED <<tables, apiChans, callers, loopPc, running, effects, last>>

NetNewConnection(c) ==
    budget > 0 /\ NetworkEmit("newConnections", [Connection |-> c])
NetIncomingMessage(c, bytes) ==
    budget > 0 /\ NetworkEmit("incomingMessages", [Connection |-> c, Message |-> bytes])
NetConnectionError(c) ==
    budget > 0 /\ NetworkEmit("connectionErrors", [Connection |-> c])
NetMessageSendError(c) ==
    budget > 0 /\ NetworkEmit("messageSendErrors", [Connection |-> c])
NetClosingConnection(c) ==
    budget > 0 /\ NetworkEmit("closingConnections", [Connection |-> c])

----------------------------------------------------------------------------
(* beginProcessingEvents: the select loop.  A case receives one value and   *)
(* calls its handler; the loop is back at the select when the handler has   *)
(* returned.                                                                 *)

\* A loop that starts each handler with a go statement and selects again at once
LoopReadyAsync == loopPc = "select"

\* The for/select is entered again only after the handler call has returned
LoopReady == loopPc = "select" /\ running = {}

\* case <-s.kill: break Loop
Kill ==
    /\ LoopReady
    /\ loopPc' = "done"
    /\ UNCHANGED <<tables, apiChans, network, callers, running, effects, last, budget>>

\* The Network channel a handler's events come from
NetworkChan(type) ==
    CASE type = "onRemoteClientConnected" -> "newConnections"
      [] type = "onRemoteClientMessage" -> "incomingMessages"
      [] type = "onConnectionError" -> "connectionErrors"
      [] type = "onMessageSendError" -> "messageSendErrors"
      [] type = "onConnectionClosed" -> "closingConnections"
      [] OTHER -> "none"

\* In an emission order, the index of the earliest event of channel chan that
\* still waits in the channel
FirstOf(order, chan) ==
    CHOOSE i \in 1..Len(order) :
        /\ order[i].chan = chan /\ ~order[i].received
        /\ \A j \in 1..(i - 1) : ~(order[j].chan = chan /\ ~order[j].received)

\* In an emission order, the index of event e, which the loop has received and
\* whose handler has not returned
EntryOf(order, e) ==
    CHOOSE i \in 1..Len(order) :
        /\ order[i].chan = NetworkChan(e.type) /\ order[i].ev = e.arg /\ order[i].received
        /\ \A j \in 1..(i - 1) :
               ~(order[j].chan = NetworkChan(e.type) /\ order[j].ev = e.arg /\ order[j].received)

Without(order, i) == SubSeq(order, 1, i - 1) \o SubSeq(order, i + 1, Len(order))

\* A receive from one of the Network's channels, followed by the handler call
ReceiveNetwork(chan, type) ==
    /\ network[chan] # <<>>
    /\ running' = running \cup {[type |-> type, arg |-> Head(network[chan])]}
    /\ network' = [network EXCEPT
                       ![chan] = Tail(@),
                       !.order = [@ EXCEPT ![FirstOf(@, chan)].received = TRUE]]
    /\ UNCHANGED <<tables, apiChans, callers, loopPc, effects, last, budget>>

\* case c := <-s.network.GetNewConnections()
ReceiveNewConnection ==
    LoopReady /\ ReceiveNetwork("newConnections", "onRemoteClientConnected")
\* case m := <-s.network.GetIncomingMessage()
ReceiveIncomingMessage ==
    LoopReady /\ ReceiveNetwork("incomingMessages", "onRemoteClientMessage")
\* case err := <-s.network.GetConnectionErrors()
ReceiveConnectionError ==
    LoopReady /\ ReceiveNetwork("connectionErrors", "onConnectionError")
\* case err := <-s.network.GetMessageSendErrors()
ReceiveMessageSendError ==
    LoopReady /\ ReceiveNetwork("messageSendErrors", "onMessageSendError")
\* case c := <-s.network.GetClosingConnections()
ReceiveClosingConnection ==
    LoopReady /\ ReceiveNetwork("closingConnections", "onConnectionClosed")

\* case r := <-s.sendMsgRequests
ReceiveSendMsgRequest ==
    /\ LoopReady
    /\ sendMsgRequests # <<>>
    /\ running' = running \cup {[type |-> "onSendMessageRequest", arg |-> Head(sendMsgRequests)]}
    /\ sendMsgRequests' = Tail(sendMsgRequests)
    /\ UNCHANGED <<tables, connectionRequests, disconnectRequests, network, callers,
                   loopPc, effects, last, budget>>

\* case n := <-s.connectionRequests
ReceiveConnectionRequest ==
    /\ LoopReady
    /\ connectionRequests # <<>>
    /\ running' = running \cup {[type |-> "onConnectionRequest", arg |-> Head(connectionRequests)]}
    /\ connectionRequests' = Tail(connectionRequests)
    /\ UNCHANGED <<tables, disconnectRequests, sendMsgRequests, network, callers,
                   loopPc, effects, last, budget>>

\* case n := <-s.disconnectRequests
ReceiveDisconnectRequest ==
    /\ LoopReady
    /\ disconnectRequests # <<>>
    /\ running' = running \cup {[type |-> "onDisconnectionRequest", arg |-> Head(disconnectRequests)]}
    /\ disconnectRequests' = Tail(disconnectRequests)
    /\ UNCHANGED <<tables, connectionRequests, sendMsgRequests, network, callers,
                   loopPc, effects, last, budget>>

----------------------------------------------------------------------------
(* The handlers *)

\* onConnectionRequest without the check for an existing session
onConnectionRequestAlwaysHandshakes(req) ==
    LET remoteNode == IF req.remoteNodeId \in DOMAIN peers
                      THEN req.remoteNodeId ELSE NilNode
        built == NewRemoteNode(req.remoteNodeId, req.remoteNodeIp)
    IN  IF remoteNode = NilNode /\ built.err
        THEN UNCHANGED <<tables, effects>>
        ELSE /\ peers' = IF remoteNode = NilNode
                         THEN Put(peers, req.remoteNodeId, built.node)
                         ELSE peers
             /\ createSession' =
                    Append(createSession,
                           [request |-> req.remoteNodeId, node |-> remoteNode])
             /\ UNCHANGED <<connections, peersByConnection, pendingOutgoingMessages,
                            closeCalled, dispatched, callbacks>>

onConnectionRequest(req) ==
    LET \* remoteNode := s.peers[req.remoteNodeId]
        remoteNode == IF req.remoteNodeId \in DOMAIN peers
                      THEN req.remoteNodeId ELSE NilNode
        \* remoteNode, err := NewRemoteNode(...) declares a new variable in the
        \* scope of the if block; the outer remoteNode keeps its value
        built == NewRemoteNode(req.remoteNodeId, req.remoteNodeIp)
    IN  IF remoteNode = NilNode /\ built.err
        THEN UNCHANGED <<tables, effects>>
        ELSE /\ peers' = IF remoteNode = NilNode
                         THEN Put(peers, req.remoteNodeId, built.node)
                         ELSE peers
             /\ IF remoteNode # NilNode /\ HasSession(remoteNode)
                THEN UNCHANGED createSession
                ELSE createSession' =
                         Append(createSession,
                                [request |-> req.remoteNodeId, node |-> remoteNode])
             /\ UNCHANGED <<connections, peersByConnection, pendingOutgoingMessages,
                            closeCalled, dispatched, callbacks>>

\* A disconnect handler that forgets the peer
onDisconnectionRequestDropsPeer(req) ==
    /\ peers' = Delete(peers, req.remoteNodeId)
    /\ UNCHANGED <<connections, peersByConnection, pendingOutgoingMessages, effects>>

onDisconnectionRequest(req) ==
    UNCHANGED <<tables, effects>>

onSendMessageRequest(r) ==
    /\ pendingOutgoingMessages' = Put(pendingOutgoingMessages, r.reqId, r)
    /\ UNCHANGED <<peers, connections, peersByConnection, effects>>

\* onConnectionClosed without its second delete
onConnectionClosedKeepsIndex(c) ==
    /\ connections' = connections \ {c.Connection}
    /\ UNCHANGED <<peers, peersByConnection, pendingOutgoingMessages, effects>>

onConnectionClosed(c) ==
    /\ connections' = connections \ {c.Connection}
    /\ peersByConnection' = Delete(peersByConnection, c.Connection)
    /\ UNCHANGED <<peers, pendingOutgoingMessages, effects>>

onRemoteClientConnected(c) ==
    UNCHANGED <<tables, effects>>

\* onRemoteClientMessage returning on a decode error without closing the connection
onRemoteClientMessageKeepsBadOpen(msg) ==
    UNCHANGED <<tables, effects>>

\* onRemoteClientMessage handing every decoded envelope to the demuxer
onRemoteClientMessageRoutesAll(msg) ==
    LET c == Unmarshal(msg.Message)
    IN  IF c.err
        THEN /\ closeCalled' = closeCalled \cup {msg.Connection}
             /\ UNCHANGED <<tables, dispatched, callbacks, createSession>>
        ELSE /\ dispatched' = dispatched \cup {[handler |-> "protocol", msg |-> msg]}
             /\ UNCHANGED <<tables, closeCalled, callbacks, createSession>>

onRemoteClientMessage(msg) ==
    LET c == Unmarshal(msg.Message)
    IN  IF c.err
        THEN /\ closeCalled' = closeCalled \cup {msg.Connection}
             /\ UNCHANGED <<tables, dispatched, callbacks, createSession>>
        ELSE IF Len(c.Payload) = 0
        THEN UNCHANGED <<tables, effects>>
        ELSE UNCHANGED <<tables, effects>>

onConnectionError(err) ==
    UNCHANGED <<tables, effects>>

onMessageSendError(err) ==
    UNCHANGED <<tables, effects>>

\* The Network's events whose handler has not returned, once that of e has
Handled(e) ==
    IF NetworkChan(e.type) = "none" THEN network
    ELSE [network EXCEPT !.order = Without(@, EntryOf(@, e))]

\* A loop that gives up when a handler meets an undecodable message or cannot
\* construct a RemoteNode
ReturnsStoppingOnError(e) ==
    /\ running' = running \ {e}
    /\ last' = Snapshot(e)
    /\ loopPc' =
           IF \/ /\ e.type = "onRemoteClientMessage"
                 /\ Unmarshal(e.arg.Message).err
              \/ /\ e.type = "onConnectionRequest"
                 /\ e.arg.remoteNodeId \notin DOMAIN peers
                 /\ NewRemoteNode(e.arg.remoteNodeId, e.arg.remoteNodeIp).err
           THEN "done" ELSE loopPc
    /\ network' = Handled(e)
    /\ UNCHANGED <<apiChans, callers, budget>>

\* The handler called for event e returns: the loop is back at its select
Returns(e) ==
    /\ running' = running \ {e}
    /\ last' = Snapshot(e)
    /\ network' = Handled(e)
    /\ UNCHANGED <<apiChans, callers, loopPc, budget>>

HandleRemoteClientConnected ==
    \E e \in running :
        e.type = "onRemoteClientConnected" /\ onRemoteClientConnected(e.arg) /\ Returns(e)

HandleRemoteClientMessage ==
    \E e \in running :
        e.type = "onRemoteClientMessage" /\ onRemoteClientMessage(e.arg) /\ Returns(e)

HandleConnectionError ==
    \E e \in running :
        e.type = "onConnectionError" /\ onConnectionError(e.arg) /\ Returns(e)

HandleMessageSendError ==
    \E e \in running :
        e.type = "onMessageSendError" /\ onMessageSendError(e.arg) /\ Returns(e)

HandleConnectionClosed ==
    \E e \in running :
        e.type = "onConnectionClosed" /\ onConnectionClosed(e.arg) /\ Returns(e)

HandleSendMessageRequest ==
    \E e \in running :
        e.type = "onSendMessageRequest" /\ onSendMessageRequest(e.arg) /\ Returns(e)

HandleConnectionRequest ==
    \E e \in running :
        e.type = "onConnectionRequest" /\ onConnectionRequest(e.arg) /\ Returns(e)

HandleDisconnectionRequest ==
    \E e \in running :
        e.type = "onDisconnectionRequest" /\ onDisconnectionRequest(e.arg) /\ Returns(e)

----------------------------------------------------------------------------
(* The handshake protocol: once CreateSession has been given a RemoteNode,  *)
(* the exchange may end with an authenticated session on that node, over a  *)
(* connection that is then bound to the node.                                *)

HandshakeComplete(p, c) ==
    /\ LoopReady
    /\ \E i \in 1..Len(createSession) : createSession[i].node = p
    /\ p \in DOMAIN peers
    /\ ~HasSession(p)
    /\ c \notin connections /\ c \notin DOMAIN peersByConnection
    /\ peers' = [peers EXCEPT ![p].session = TRUE]
    /\ connections' = connections \cup {c}
    /\ peersByConnection' = Put(peersByConnection, c, p)
    /\ UNCHANGED <<pendingOutgoingMessages, apiChans, network, callers, loopPc,
                   running, effects, last, budget>>

----------------------------------------------------------------------------
CallerStep ==
    \E a \in Callers :
        \/ \E req \in ConnectReqs(a) : ConnectTo(a, req)
        \/ \E req \in DisconnectReqs(a) : DisconnectFrom(a, req)
        \/ \E req \in SendMessageReqs : SendMessage(a, req)

CallerReturn ==
    \E a \in Callers :
        \/ ConnectToReturn(a)
        \/ DisconnectFromReturn(a)
        \/ SendMessageReturn(a)

NetworkStep ==
    \E c \in ConnIds :
        \/ NetNewConnection(c)
        \/ \E bytes \in Frames : NetIncomingMessage(c, bytes)
        \/ NetConnectionError(c)
        \/ NetMessageSendError(c)
        \/ NetClosingConnection(c)

LoopStep ==
    \/ ReceiveNewConnection \/ HandleRemoteClientConnected
    \/ ReceiveIncomingMessage \/ HandleRemoteClientMessage
    \/ ReceiveConnectionError \/ HandleConnectionError
    \/ ReceiveMessageSendError \/ HandleMessageSendError
    \/ ReceiveClosingConnection \/ HandleConnectionClosed
    \/ ReceiveSendMsgRequest \/ HandleSendMessageRequest
    \/ ReceiveConnectionRequest \/ HandleConnectionRequest
    \/ ReceiveDisconnectRequest \/ HandleDisconnectionRequest

HandshakeStep == \E p \in PeerIds, c \in ConnIds : HandshakeComplete(p, c)

Next == CallerStep \/ CallerReturn \/ NetworkStep \/ LoopStep \/ Kill \/ HandshakeStep

Spec == Init /\ [][Next]_vars

----------------------------------------------------------------------------
(* Scheduling.  The loop goroutine and a caller inside a channel send run   *)
(* whenever they can take a step; the callers, the Network and whoever      *)
(* signals kill are under no obligation to act.                              *)

Fairness == WF_vars(LoopStep) /\ WF_vars(CallerReturn)

FairSpec == Init /\ [][Next]_vars /\ Fairness

\* NewSwarm followed by ConnectTo calls that have filled s.connectionRequests
\* before the loop has received any of them
InitBacklog ==
    /\ peers = <<>>
    /\ connections = {}
    /\ peersByConnection = <<>>
    /\ pendingOutgoingMessages = <<>>
    /\ connectionRequests =
           [i \in 1..ConnectionRequestsCap |->
               [remoteNodeId |-> "p1", remoteNodeIp |-> "good", callback |-> "a1"]]
    /\ disconnectRequests = <<>>
    /\ sendMsgRequests = <<>>
    /\ network = [newConnections |-> <<>>, incomingMessages |-> <<>>,
                  connectionErrors |-> <<>>, messageSendErrors |-> <<>>,
                  closingConnections |-> <<>>, order |-> <<>>]
    /\ callers = [a \in Callers |-> Idle]
    /\ loopPc = "select"
    /\ running = {}
    /\ closeCalled = {}
    /\ dispatched = {}
    /\ callbacks = {}
    /\ createSession = <<>>
    /\ last = Snapshot(NoEvent)
    /\ budget = BacklogEvents

BacklogSpec == InitBacklog /\ [][Next]_vars /\ Fairness

----------------------------------------------------------------------------
(* Properties *)

\* The handler called for event e returns in this step
Returned(e) == e \in running /\ e \notin running'

\* In the tables t, connection c is bound to a RemoteNode with a session
BoundToSession(t, c) ==
    /\ c \in DOMAIN t.peersByConnection
    /\ t.peersByConnection[c] \in DOMAIN t.peers
    /\ t.peers[t.peersByConnection[c]].session

\* The CreateSession invocations made while handling connect requests for p
HandshakesFor(p) == {i \in 1..Len(createSession) : createSession[i].request = p}

\* C1: a send request whose reqId is already pending leaves the pending
\* entry stored under that reqId as it was.
C1_DuplicateSendKeepsEntry ==
    (/\ last.ev.type = "onSendMessageRequest"
     /\ last.ev.arg.reqId \in DOMAIN last.pendingOutgoingMessages)
    => pendingOutgoingMessages[last.ev.arg.reqId]
           = last.pendingOutgoingMessages[last.ev.arg.reqId]

\* C2: at most one handler is executing at any time, whatever the callers
\* and the Network do meanwhile.
C2_OneHandlerAtATime == Cardinality(running) <= 1

\* A handler is executing while a caller is inside an API call and another
\* request waits in a channel
C2_Witness ==
    /\ Cardinality(running) = 1
    /\ \E a \in Callers : callers[a] # Idle
    /\ Len(connectionRequests) + Len(disconnectRequests) + Len(sendMsgRequests) > 0

\* C3: when the handler of a connection-closed event for connection C
\* returns, C is a key of neither the connection table nor the
\* peer-by-connection index.
C3_ClosedConnectionPurged ==
    [][\A e \in running :
          (e.type = "onConnectionClosed" /\ Returned(e))
          => /\ e.arg.Connection \notin connections'
             /\ e.arg.Connection \notin DOMAIN peersByConnection']_vars

\* A connection-closed event was handled for a connection that was in both
\* tables, and is in neither now
C3_Witness ==
    /\ last.ev.type = "onConnectionClosed"
    /\ last.ev.arg.Connection \in last.connections
    /\ last.ev.arg.Connection \in DOMAIN last.peersByConnection
    /\ last.ev.arg.Connection \notin connections
    /\ last.ev.arg.Connection \notin DOMAIN peersByConnection

\* C4: a message with a non-empty payload, handled for a connection that is
\* not bound to a RemoteNode with a session, has its connection closed and
\* is dispatched to no protocol handler.
C4_UnboundDataMessageClosesConnection ==
    (/\ last.ev.type = "onRemoteClientMessage"
     /\ ~Unmarshal(last.ev.arg.Message).err
     /\ Len(Unmarshal(last.ev.arg.Message).Payload) > 0
     /\ ~BoundToSession(last, last.ev.arg.Connection))
    => /\ last.ev.arg.Connection \in closeCalled
       /\ \A d \in dispatched : d.msg # last.ev.arg

\* C5: a message whose envelope has an empty payload is delivered to no
\* protocol handler other than the handshake handler.
C5_EmptyPayloadOnlyToHandshake ==
    \A d \in dispatched :
        (/\ ~Unmarshal(d.msg.Message).err
         /\ Len(Unmarshal(d.msg.Message).Payload) = 0)
        => d.handler = "handshake"

\* A message that decodes to an envelope with an empty payload was handled
C5_Witness ==
    /\ last.ev.type = "onRemoteClientMessage"
    /\ ~Unmarshal(last.ev.arg.Message).err
    /\ Len(Unmarshal(last.ev.arg.Message).Payload) = 0
    /\ running = {}

\* C6: every pending outgoing message that gets no response is eventually
\* resolved with a timeout error and leaves the pending table.
C6_PendingEventuallyTimesOut ==
    \A r \in ReqIds :
        (r \in DOMAIN pendingOutgoingMessages)
        ~> (/\ r \notin DOMAIN pendingOutgoingMessages
            /\ \E cb \in callbacks : cb.reqId = r /\ cb.err = "timeout")

\* C7: while no handshake with a peer has completed, the connect requests
\* handled for that peer have invoked CreateSession at most once.
C7_OneHandshakePerPeer ==
    \A p \in PeerIds :
        (p \notin DOMAIN peers \/ ~HasSession(p))
        => Cardinality(HandshakesFor(p)) <= 1

\* C8: a send request handled for a peer without a session initiates a
\* handshake for that peer, and a handled message carrying the reqId of a
\* pending entry retires the entry and fires the caller's callback.
C8_SendTriggersHandshakeAndResponseRetires ==
    /\ (/\ last.ev.type = "onSendMessageRequest"
        /\ ~(/\ last.ev.arg.remoteNodeId \in DOMAIN last.peers
             /\ last.peers[last.ev.arg.remoteNodeId].session))
       => Len(createSession) > Len(last.createSession)
    /\ \A r \in ReqIds :
           (/\ last.ev.type = "onRemoteClientMessage"
            /\ Unmarshal(last.ev.arg.Message).Payload = <<r>>
            /\ r \in DOMAIN last.pendingOutgoingMessages)
           => /\ r \notin DOMAIN pendingOutgoingMessages
              /\ \E cb \in callbacks : cb.reqId = r

\* C9: every call of ConnectTo, DisconnectFrom or SendMessage eventually
\* returns to its caller.
C9_EveryCallReturns ==
    \A a \in Callers : (callers[a] # Idle) ~> (callers[a] = Idle)

\* C10: once the loop has terminated on the kill signal, every connection of
\* the connection table has been closed and every pending outgoing message
\* has been resolved with a shutdown error.
C10_KillClosesAndResolves ==
    loopPc = "done"
    => /\ connections \subseteq closeCalled
       /\ \A r \in DOMAIN pendingOutgoingMessages :
              \E cb \in callbacks : cb.reqId = r /\ cb.err = "shutdown"

\* The new-connection, incoming-message and connection-closed events
LifecycleTypes ==
    {"onRemoteClientConnected", "onRemoteClientMessage", "onConnectionClosed"}
LifecycleChans == {NetworkChan(t) : t \in LifecycleTypes}

\* C11 as stated: when the handler of a new-connection, incoming-message or
\* connection-closed event of a connection returns, no such event of the same
\* connection that the Network emitted earlier is still to be handled.
C11_ConnectionEventsInEmissionOrder ==
    [][\A e \in running :
          (Returned(e) /\ e.type \in LifecycleTypes)
          => \A j \in 1..(EntryOf(network.order, e) - 1) :
                 ~(/\ network.order[j].chan \in LifecycleChans
                   /\ network.order[j].ev.Connection = e.arg.Connection)]_vars

\* C11 as amended: when the handler of a new-connection, incoming-message or
\* connection-closed event of a connection returns, no event of the same kind
\* and the same connection that the Network emitted earlier is still to be
\* handled, be it waiting in the channel or in a handler that has not returned.
C11_SameChannelInEmissionOrder ==
    [][\A e \in running :
          (Returned(e) /\ e.type \in LifecycleTypes)
          => \A j \in 1..(EntryOf(network.order, e) - 1) :
                 ~(/\ network.order[j].chan = NetworkChan(e.type)
                   /\ network.order[j].ev.Connection = e.arg.Connection)]_vars

\* A message of a connection has been handled, a second message of the same
\* connection is being handled, and a third one, emitted after it, waits
C11_Witness ==
    /\ last.ev.type = "onRemoteClientMessage"
    /\ \E e \in running :
           /\ e.type = "onRemoteClientMessage"
           /\ e.arg.Connection = last.ev.arg.Connection
           /\ e.arg # last.ev.arg
           /\ \E j \in (EntryOf(network.order, e) + 1)..Len(network.order) :
                  /\ network.order[j].chan = "incomingMessages"
                  /\ ~network.order[j].received
                  /\ network.order[j].ev.Connection = e.arg.Connection

\* The node ids bound to some connection in the index m
BoundPeers(m) == {m[c] : c \in DOMAIN m}

\* C12: a disconnect request handled for a peer with a session leaves the
\* peer without session and bound to no connection, its RemoteNode still in
\* the peer table; for any other peer it changes none of the tables.
C12_DisconnectDropsSession ==
    [][\A e \in running :
          (e.type = "onDisconnectionRequest" /\ Returned(e))
          => IF e.arg.remoteNodeId \in DOMAIN peers /\ HasSession(e.arg.remoteNodeId)
             THEN /\ e.arg.remoteNodeId \in DOMAIN peers'
                  /\ ~peers'[e.arg.remoteNodeId].session
                  /\ e.arg.remoteNodeId \notin BoundPeers(peersByConnection')
             ELSE UNCHANGED tables]_vars

\* C13: a connect request handled for a peer absent from the peer table,
\* whose RemoteNode is constructed, invokes CreateSession with the node it
\* stored under that peer id.
C13_CreateSessionGetsStoredNode ==
    (/\ last.ev.type = "onConnectionRequest"
     /\ last.ev.arg.remoteNodeId \notin DOMAIN last.peers
     /\ ~NewRemoteNode(last.ev.arg.remoteNodeId, last.ev.arg.remoteNodeIp).err)
    => /\ last.ev.arg.remoteNodeId \in DOMAIN peers
       /\ createSession =
              Append(last.createSession,
                     [request |-> last.ev.arg.remoteNodeId,
                      node |-> last.ev.arg.remoteNodeId])

\* C14: a connect request whose RemoteNode cannot be constructed has an
\* error result delivered on its callback once it has been handled.
C14_FailedConnectReportsError ==
    (/\ last.ev.type = "onConnectionRequest"
     /\ last.ev.arg.remoteNodeId \notin DOMAIN last.peers
     /\ NewRemoteNode(last.ev.arg.remoteNodeId, last.ev.arg.remoteNodeIp).err)
    => \E cb \in callbacks :
           /\ cb.callback = last.ev.arg.callback
           /\ cb.remoteNodeId = last.ev.arg.remoteNodeId
           /\ cb.err # "nil"

\* C15: a connect request handled for a peer whose RemoteNode has a session
\* invokes no CreateSession and leaves the peer table as it was.
C15_ConnectWithSessionStartsNoHandshake ==
    [][\A e \in running :
          (/\ e.type = "onConnectionRequest"
           /\ Returned(e)
           /\ e.arg.remoteNodeId \in DOMAIN peers
           /\ HasSession(e.arg.remoteNodeId))
          => createSession' = createSession /\ peers' = peers]_vars

\* A connect request was handled for a peer that had a session
C15_Witness ==
    /\ last.ev.type = "onConnectionRequest"
    /\ last.ev.arg.remoteNodeId \in DOMAIN last.peers
    /\ last.peers[last.ev.arg.remoteNodeId].session
    /\ createSession = last.createSession
    /\ running = {}

\* C16: a message that does not decode has its connection closed by the
\* handler run that received it, reaches no handler, and leaves the peer
\* table and the pending table as they were.
C16_UndecodableMessageClosesConnection ==
    [][\A e \in running :
          (/\ e.type = "onRemoteClientMessage"
           /\ Returned(e)
           /\ Unmarshal(e.arg.Message).err)
          => /\ e.arg.Connection \in closeCalled'
             /\ dispatched' = dispatched
             /\ peers' = peers
             /\ pendingOutgoingMessages' = pendingOutgoingMessages]_vars

\* An undecodable message was handled on a connection not closed before,
\* with a peer and a pending message in the tables
C16_Witness ==
    /\ last.ev.type = "onRemoteClientMessage"
    /\ Unmarshal(last.ev.arg.Message).err
    /\ last.ev.arg.Connection \notin last.closeCalled
    /\ last.ev.arg.Connection \in closeCalled
    /\ DOMAIN peers # {}
    /\ DOMAIN pendingOutgoingMessages # {}

\* C17: when the handler of a connection-closed event returns, the
\* RemoteNode the connection was bound to has no session.
C17_ClosedConnectionClearsSession ==
    [][\A e \in running :
          (/\ e.type = "onConnectionClosed"
           /\ Returned(e)
           /\ e.arg.Connection \in DOMAIN peersByConnection)
          => ~peers'[peersByConnection[e.arg.Connection]].session]_vars

\* C18: no step removes a peer id from the peer table.
C18_PeersNeverRemoved ==
    [][DOMAIN peers \subseteq DOMAIN peers']_vars

\* A disconnect request or a connection-closed event was handled with a peer
\* in the table, and the peer is still there
C18_Witness ==
    /\ last.ev.type \in {"onDisconnectionRequest", "onConnectionClosed"}
    /\ DOMAIN last.peers # {}
    /\ DOMAIN last.peers \subseteq DOMAIN peers
    /\ running = {}

\* C19: a handler that returns, whatever it met, leaves the loop at its
\* select; the loop terminates only in a step that runs no handler.
C19_LoopStopsOnlyOnKill ==
    [][/\ \A e \in running : Returned(e) => loopPc' = "select"
       /\ (loopPc = "select" /\ loopPc' = "done")
          => (running = {} /\ running' = {} /\ last' = last)]_vars

\* An undecodable message and a connect request whose RemoteNode cannot be
\* constructed have been handled, and the loop is at its select
C19_Witness ==
    /\ last.ev.type = "onConnectionRequest"
    /\ last.ev.arg.remoteNodeId \notin DOMAIN last.peers
    /\ NewRemoteNode(last.ev.arg.remoteNodeId, last.ev.arg.remoteNodeIp).err
    /\ closeCalled # {}
    /\ loopPc = "select"
    /\ running = {}

\* C20: when the handler of a connection-error or send-error event of
\* connection C returns, C is a key of neither the connection table nor the
\* peer-by-connection index, and no pending message is left unresolved for
\* the peer C was bound to.
C20_ErrorCleansUpConnection ==
    [][\A e \in running :
          (e.type \in {"onConnectionError", "onMessageSendError"} /\ Returned(e))
          => /\ e.arg.Connection \notin connections'
             /\ e.arg.Connection \notin DOMAIN peersByConnection'
             /\ \A r \in DOMAIN pendingOutgoingMessages' :
                    (/\ e.arg.Connection \in DOMAIN peersByConnection
                     /\ pendingOutgoingMessages'[r].remoteNodeId
                            = peersByConnection[e.arg.Connection])
                    => \E cb \in callbacks' : cb.reqId = r]_vars

====
